---- MODULE Spec2Model ----
(***************************************************************************)
(* Model of github_analyzer: the GitHub HTTP wrapper (api_request), the    *)
(* paginated listers and the user search built on it, the aggregation/     *)
(* sort/patch stage, the prompt preparation, the LLM reply parsers, the    *)
(* batch evaluation of candidates and the entry points (CLI and web).      *)
(***************************************************************************)
EXTENDS Integers, Sequences, FiniteSets, TLC

(***************************************************************************)
(* Program constants                                                       *)
(***************************************************************************)
max_retries == 3
FlatWait == 60
WarnBelow == 10

(***************************************************************************)
(* Bounds of the model                                                     *)
(***************************************************************************)
MaxItems == 4
PerPage == 2
MaxResults == 3

Absent == -1
Now0 == 100

VARIABLES
    op,             \* the operation being run by the top-level caller
    apiPc,          \* api_request: "idle" | "get" | "returned" | "raised"
    attempt,        \* api_request: loop variable of `for attempt in range(max_retries)`
    apiResult,      \* api_request: value returned to the caller (NoResponse = None)
    apiLog,         \* api_request: one entry per GET that did not return, with its sleeps
    warned,         \* api_request: the low-quota warning was printed for the returned response
    callerPc,       \* caller of api_request: "loop" | "wait" | "returned" | "raised"
    page,           \* lister: page counter
    acc,            \* lister: repos / commits accumulated so far
    requested,      \* history: page numbers passed to api_request, in order
    patchOut,       \* get_commit_patch: its return value ("None" = Python's None)
    server,         \* environment: the listing held by GitHub, cut into its non-empty pages
    max_results,    \* search_github_users: its argument max_results
    mode,           \* fetch stage: "batch" (fetch_user_commits) | "web" (analyze) | "cli" (main)
    repoCommits,    \* environment: per repository, the commits get_commits_for_repo returns
    fault,          \* environment: the commit whose patch request fails, and how
    fetchPc,        \* fetch stage: "repos" | "collect" | "sort" | "patches" | "done" | ...
    repoIdx,        \* fetch stage: position of `for repo in repos`
    all_commits,    \* fetch stage: the aggregated commit list
    aggregated,     \* history: all_commits as it was handed to the sort
    patchIdx,       \* fetch stage: position of the patch loop
    patches,        \* fetch stage: dict sha -> patch text
    patchRequests,  \* history: the shas get_commit_patch was called for, in order
    prepPc,         \* prepare_commits_for_analysis: "call" | "returned"
    prepCommits,    \* prepare_commits_for_analysis: its argument all_commits
    prepPatches,    \* prepare_commits_for_analysis: its argument patches (dict sha -> text)
    commit_summaries, \* prepare_commits_for_analysis: the list it returns
    parser,         \* reply parsing: the function whose parsing code runs
    replies,        \* environment: the LLM reply texts handed to it, one per call
    replyIdx,       \* reply parsing: number of calls made
    parsed,         \* reply parsing: the value each call returned
    candidates,     \* environment: per username, what GitHub holds and what the LLM does
    cand,           \* evaluate_candidates: position of `for i, username in enumerate(usernames)`
    batchPc,        \* evaluate_candidates: "loop" | "fetching" | "prepare" | "evaluate" | ...
    results,        \* evaluate_candidates: the list it builds and returns
    trace,          \* history: the steps taken for each candidate, in order
    entry,          \* entry point: "cli_match" | "cli_single" | "web_analyze" | ...
    has_api_key,    \* environment: ANTHROPIC_API_KEY is set
    args,           \* main(): the flags --no-rate and --output
    entryPc,        \* entry point: "start" | "jd" | "evaluate" | "fetching" | "done" | "crashed"
    calls,          \* history: the requests sent to GitHub and to the LLM, in order
    files,          \* main(): the files written
    reported        \* entry point: what the user is told at the end

apiVars == <<apiPc, attempt, apiResult, apiLog, warned>>
listVars == <<callerPc, page, acc, requested, patchOut>>
httpVars == <<op, apiVars, listVars, server, max_results>>
fetchVars == <<mode, repoCommits, fault, fetchPc, repoIdx, all_commits, aggregated,
               patchIdx, patches, patchRequests>>
prepVars == <<prepPc, prepCommits, prepPatches, commit_summaries>>
parseVars == <<parser, replies, replyIdx, parsed>>
batchVars == <<candidates, cand, batchPc, results, trace>>
entryVars == <<entry, has_api_key, args, entryPc, calls, files, reported>>
vars == <<op, apiPc, attempt, apiResult, apiLog, warned,
          callerPc, page, acc, requested, patchOut, server, max_results,
          mode, repoCommits, fault, fetchPc, repoIdx, all_commits, aggregated,
          patchIdx, patches, patchRequests,
          prepPc, prepCommits, prepPatches, commit_summaries,
          parser, replies, replyIdx, parsed,
          candidates, cand, batchPc, results, trace,
          entry, has_api_key, args, entryPc, calls, files, reported>>

\* the variables a layer leaves alone
notHttp == <<fetchVars, prepVars, parseVars, batchVars, entryVars>>
notFetch == <<httpVars, prepVars, parseVars, batchVars, entryVars>>
notPrep == <<httpVars, fetchVars, parseVars, batchVars, entryVars>>
notParse == <<httpVars, fetchVars, prepVars, batchVars, entryVars>>


(***************************************************************************)
(* HTTP responses                                                          *)
(***************************************************************************)
\* (X-RateLimit-Remaining, X-RateLimit-Reset) of a rate-limit 403; the clock reads Now0
RateLimitHeaders ==
    {<<Absent, Absent>>, <<0, Absent>>, <<0, Now0 - 1>>, <<0, Now0 + 4>>, <<5, Now0 + 4>>}

RECURSIVE SeqsUpTo(_, _)
SeqsUpTo(S, n) ==
    IF n = 0 THEN {<< >>}
    ELSE LET shorter == SeqsUpTo(S, n - 1)
         IN shorter \cup {Append(s, x) : s \in {t \in shorter : Len(t) = n - 1}, x \in S}

\* s[:n] for n >= 0
Slice(s, n) == SubSeq(s, 1, IF Len(s) < n THEN Len(s) ELSE n)

\* the ways GitHub can serve the listing from..n in non-empty pages of at most
\* PerPage items; the items are numbered in listing order
RECURSIVE Chunkings(_, _)
Chunkings(from, n) ==
    IF from > n THEN {<< >>}
    ELSE UNION {{<<[i \in 1..k |-> from + i - 1]>> \o rest : rest \in Chunkings(from + k, n)} :
                    k \in 1..(IF n - from + 1 < PerPage THEN n - from + 1 ELSE PerPage)}

Servers == UNION {Chunkings(1, n) : n \in 0..MaxItems}

\* what GitHub answers for `page`: pages past the end of the listing are empty
ServerPage(p) == IF p <= Len(server) THEN server[p] ELSE << >>

\* "none" stands for Python's None; its other fields are fillers.
NoResponse ==
    [kind |-> "none", status |-> 0, rateText |-> FALSE, remaining |-> Absent,
     reset |-> Absent, jsonObject |-> FALSE, data |-> << >>]

Response(st, rt, rem, rs, jo, d) ==
    [kind |-> "response", status |-> st, rateText |-> rt, remaining |-> rem,
     reset |-> rs, jsonObject |-> jo, data |-> d]

\* 403 responses whose body contains "rate limit"
RateLimitResponses ==
    {Response(403, TRUE, h[1], h[2], TRUE, << >>) : h \in RateLimitHeaders}

\* every other response: a 200 carries a JSON list, an error carries a body that
\* is a JSON object or is not
OtherResponses(p) ==
    {Response(200, FALSE, rem, Absent, FALSE, ServerPage(p)) : rem \in {Absent, 5}}
    \cup {Response(st, FALSE, rem, Absent, TRUE, << >>) :
            st \in {403, 404, 409}, rem \in {Absent, 5}}
    \cup {Response(404, TRUE, Absent, Absent, TRUE, << >>)}
    \cup {Response(502, FALSE, Absent, Absent, jo, << >>) : jo \in BOOLEAN}

(***************************************************************************)
(* check_rate_limit(response): the sleeps it makes and whether it waited   *)
(***************************************************************************)
HeaderInt(h, default) == IF h = Absent THEN default ELSE h

\* variant: the wait is computed without the extra second
check_rate_limit_NoExtraSecond(response, now) ==
    LET remaining == HeaderInt(response.remaining, 1)
        reset_time == HeaderInt(response.reset, 0)
        wait_seconds == reset_time - now
    IN IF remaining = 0 /\ reset_time > 0 /\ wait_seconds > 0
       THEN [waited |-> TRUE, slept |-> <<wait_seconds>>]
       ELSE [waited |-> FALSE, slept |-> << >>]

check_rate_limit(response, now) ==
    LET remaining == HeaderInt(response.remaining, 1)
        reset_time == HeaderInt(response.reset, 0)
        wait_seconds == reset_time - now + 1
    IN IF remaining = 0 /\ reset_time > 0 /\ wait_seconds > 0
       THEN [waited |-> TRUE, slept |-> <<wait_seconds>>]
       ELSE [waited |-> FALSE, slept |-> << >>]

(***************************************************************************)
(* api_request                                                             *)
(***************************************************************************)
Pow2(n) == IF n = 0 THEN 1 ELSE IF n = 1 THEN 2 ELSE IF n = 2 THEN 4 ELSE 8

LogEntry(k, r, now, s) ==
    [kind |-> k, status |-> r.status, rateText |-> r.rateText,
     remaining |-> r.remaining, reset |-> r.reset, now |-> now, slept |-> s]

\* variant: the loop allows one attempt more
NextAttempt_OneMore(log) ==
    /\ attempt' = attempt + 1
    /\ apiLog' = log
    /\ IF attempt + 1 < max_retries + 1
       THEN apiPc' = "get" /\ apiResult' = apiResult
       ELSE apiPc' = "returned" /\ apiResult' = NoResponse
    /\ UNCHANGED warned

\* the for loop moves to the next attempt, or falls off its end
NextAttempt(log) ==
    /\ attempt' = attempt + 1
    /\ apiLog' = log
    /\ IF attempt + 1 < max_retries
       THEN apiPc' = "get" /\ apiResult' = apiResult
       ELSE apiPc' = "returned" /\ apiResult' = NoResponse
    /\ UNCHANGED warned

\* requests.get raises SSLError / ConnectionError / Timeout
api_request_except ==
    /\ apiPc = "get"
    /\ IF attempt < max_retries - 1
       THEN NextAttempt(Append(apiLog, LogEntry("fail", NoResponse, Absent, <<Pow2(attempt)>>)))
       ELSE /\ apiPc' = "raised"
            /\ apiLog' = Append(apiLog, LogEntry("fail", NoResponse, Absent, << >>))
            /\ UNCHANGED <<attempt, apiResult, warned>>
    /\ UNCHANGED <<op, server, max_results, listVars>>
    /\ UNCHANGED notHttp

\* requests.get answers 403 with "rate limit" in the body
api_request_rate_limited ==
    /\ apiPc = "get"
    /\ \E r \in RateLimitResponses :
          LET c == check_rate_limit(r, Now0)
              s == IF c.waited THEN c.slept ELSE c.slept \o <<FlatWait>>
          IN NextAttempt(Append(apiLog, LogEntry("ratelimit", r, Now0, s)))
    /\ UNCHANGED <<op, server, max_results, listVars>>
    /\ UNCHANGED notHttp

\* variant: a response with a low remaining quota is waited on and retried
api_request_return_RetryOnLowQuota ==
    /\ apiPc = "get"
    /\ \E r \in OtherResponses(page) :
          IF r.remaining # Absent /\ r.remaining < WarnBelow
          THEN NextAttempt(Append(apiLog, LogEntry("ratelimit", r, Now0, <<FlatWait>>)))
          ELSE /\ apiResult' = r
               /\ warned' = FALSE
               /\ apiPc' = "returned"
               /\ UNCHANGED <<attempt, apiLog>>
    /\ UNCHANGED <<op, server, max_results, listVars>>
    /\ UNCHANGED notHttp

\* requests.get answers anything else: warn on low quota, return the response
api_request_return ==
    /\ apiPc = "get"
    /\ \E r \in OtherResponses(page) :
          /\ apiResult' = r
          /\ warned' = (r.remaining # Absent /\ r.remaining < WarnBelow)
    /\ apiPc' = "returned"
    /\ UNCHANGED <<attempt, apiLog>>
    /\ UNCHANGED <<op, server, max_results, listVars>>
    /\ UNCHANGED notHttp

\* a caller enters api_request
api_request_call ==
    /\ apiPc' = "get"
    /\ attempt' = 0
    /\ apiResult' = NoResponse
    /\ apiLog' = << >>
    /\ warned' = FALSE

api_done == apiPc \in {"returned", "raised"}

(***************************************************************************)
(* get_user_repos                                                          *)
(***************************************************************************)
\* top of `while True`: build params for `page` and call api_request
get_user_repos_request ==
    /\ op = "get_user_repos"
    /\ callerPc = "loop"
    /\ api_request_call
    /\ callerPc' = "wait"
    /\ requested' = Append(requested, page)
    /\ UNCHANGED <<op, server, max_results, page, acc, patchOut>>
    /\ UNCHANGED notHttp

\* variant: the page counter advances by two
get_user_repos_response_SkipPage ==
    /\ op = "get_user_repos"
    /\ callerPc = "wait"
    /\ api_done
    /\ IF apiPc = "raised" \/ apiResult.kind = "none"
       THEN /\ callerPc' = "raised"
            /\ UNCHANGED <<page, acc>>
       ELSE IF apiResult.status # 200
       THEN /\ callerPc' = IF apiResult.jsonObject THEN "returned" ELSE "raised"
            /\ UNCHANGED <<page, acc>>
       ELSE IF apiResult.data = << >>
       THEN /\ callerPc' = "returned"
            /\ UNCHANGED <<page, acc>>
       ELSE /\ acc' = acc \o apiResult.data
            /\ page' = page + 2
            /\ callerPc' = "loop"
    /\ UNCHANGED <<op, server, max_results, requested, patchOut, apiVars>>
    /\ UNCHANGED notHttp

\* the rest of the loop body, once api_request has finished
get_user_repos_response ==
    /\ op = "get_user_repos"
    /\ callerPc = "wait"
    /\ api_done
    /\ IF apiPc = "raised" \/ apiResult.kind = "none"
       THEN \* the exception propagates; None.status_code raises AttributeError
            /\ callerPc' = "raised"
            /\ UNCHANGED <<page, acc>>
       ELSE IF apiResult.status # 200
       THEN \* the error line evaluates response.json().get('message', '')
            /\ callerPc' = IF apiResult.jsonObject THEN "returned" ELSE "raised"
            /\ UNCHANGED <<page, acc>>
       ELSE IF apiResult.data = << >>
       THEN /\ callerPc' = "returned"
            /\ UNCHANGED <<page, acc>>
       ELSE /\ acc' = acc \o apiResult.data
            /\ page' = page + 1
            /\ callerPc' = "loop"
    /\ UNCHANGED <<op, server, max_results, requested, patchOut, apiVars>>
    /\ UNCHANGED notHttp

(***************************************************************************)
(* get_commits_for_repo                                                    *)
(***************************************************************************)
get_commits_for_repo_request ==
    /\ op = "get_commits_for_repo"
    /\ callerPc = "loop"
    /\ api_request_call
    /\ callerPc' = "wait"
    /\ requested' = Append(requested, page)
    /\ UNCHANGED <<op, server, max_results, page, acc, patchOut>>
    /\ UNCHANGED notHttp

\* variant: a new page is put in front of the accumulated commits
get_commits_for_repo_response_Prepend ==
    /\ op = "get_commits_for_repo"
    /\ callerPc = "wait"
    /\ api_done
    /\ IF apiPc = "raised" \/ apiResult.kind = "none"
       THEN /\ callerPc' = "raised"
            /\ UNCHANGED <<page, acc>>
       ELSE IF apiResult.status = 409 \/ apiResult.status # 200
       THEN /\ callerPc' = "returned"
            /\ UNCHANGED <<page, acc>>
       ELSE IF apiResult.data = << >>
       THEN /\ callerPc' = "returned"
            /\ UNCHANGED <<page, acc>>
       ELSE /\ acc' = apiResult.data \o acc
            /\ page' = page + 1
            /\ callerPc' = "loop"
    /\ UNCHANGED <<op, server, max_results, requested, patchOut, apiVars>>
    /\ UNCHANGED notHttp

get_commits_for_repo_response ==
    /\ op = "get_commits_for_repo"
    /\ callerPc = "wait"
    /\ api_done
    /\ IF apiPc = "raised" \/ apiResult.kind = "none"
       THEN /\ callerPc' = "raised"
            /\ UNCHANGED <<page, acc>>
       ELSE IF apiResult.status = 409 \/ apiResult.status # 200
       THEN /\ callerPc' = "returned"
            /\ UNCHANGED <<page, acc>>
       ELSE IF apiResult.data = << >>
       THEN /\ callerPc' = "returned"
            /\ UNCHANGED <<page, acc>>
       ELSE /\ acc' = acc \o apiResult.data
            /\ page' = page + 1
            /\ callerPc' = "loop"
    /\ UNCHANGED <<op, server, max_results, requested, patchOut, apiVars>>
    /\ UNCHANGED notHttp

(***************************************************************************)
(* get_commit_patch: one api_request call with the patch Accept header     *)
(***************************************************************************)
PatchText == "diff"

get_commit_patch_request ==
    /\ op = "get_commit_patch"
    /\ callerPc = "loop"
    /\ api_request_call
    /\ callerPc' = "wait"
    /\ UNCHANGED <<op, server, max_results, page, acc, requested, patchOut>>
    /\ UNCHANGED notHttp

get_commit_patch_response ==
    /\ op = "get_commit_patch"
    /\ callerPc = "wait"
    /\ api_done
    /\ IF apiPc = "raised" \/ apiResult.kind = "none"
       THEN callerPc' = "raised" /\ UNCHANGED patchOut
       ELSE /\ callerPc' = "returned"
            /\ patchOut' = IF apiResult.status = 200 THEN PatchText ELSE "None"
    /\ UNCHANGED <<op, server, max_results, page, acc, requested, apiVars>>
    /\ UNCHANGED notHttp

(***************************************************************************)
(* search_github_users: one api_request call to the user search            *)
(***************************************************************************)
SearchPageCap == 100

\* params["per_page"] = min(max_results * 2, 100)
SearchPerPage == IF max_results * 2 < SearchPageCap THEN max_results * 2 ELSE SearchPageCap

\* the users the search answers with, numbered by rank; the login of user i
\* is i, and a body without "items" reads as the empty list
SearchServers == {<< >>} \cup {<<[i \in 1..n |-> i]>> : n \in 1..MaxItems}

search_github_users_request ==
    /\ op = "search_github_users"
    /\ callerPc = "loop"
    /\ api_request_call
    /\ callerPc' = "wait"
    /\ requested' = Append(requested, SearchPerPage)
    /\ UNCHANGED <<op, server, max_results, page, acc, patchOut>>
    /\ UNCHANGED notHttp

\* `if response.status_code != 200: return []`, else the logins of
\* data.get("items", []) cut by [:max_results]
search_github_users_response ==
    /\ op = "search_github_users"
    /\ callerPc = "wait"
    /\ api_done
    /\ IF apiPc = "raised" \/ apiResult.kind = "none"
       THEN callerPc' = "raised" /\ UNCHANGED acc
       ELSE /\ callerPc' = "returned"
            /\ acc' = IF apiResult.status # 200 THEN << >>
                      ELSE Slice(apiResult.data, max_results)
    /\ UNCHANGED <<op, server, max_results, page, requested, patchOut, apiVars>>
    /\ UNCHANGED notHttp

(***************************************************************************)
(* Specification of the HTTP layer                                         *)
(***************************************************************************)
Ops == {"get_commit_patch", "get_user_repos", "get_commits_for_repo", "search_github_users"}

HttpInit ==
    /\ op \in Ops
    /\ apiPc = "idle"
    /\ attempt = 0
    /\ apiResult = NoResponse
    /\ apiLog = << >>
    /\ warned = FALSE
    /\ callerPc = "loop"
    /\ page = 1
    /\ acc = << >>
    /\ requested = << >>
    /\ patchOut = "None"
    /\ server \in IF op = "get_commit_patch" THEN {<< >>}
                   ELSE IF op = "search_github_users" THEN SearchServers
                   ELSE Servers
    /\ max_results \in IF op = "search_github_users" THEN 0..MaxResults ELSE {0}

\* the fetch stage before it is entered
FetchIdle ==
    /\ mode = "none"
    /\ repoCommits = << >>
    /\ fault = [sha |-> 0, kind |-> "none"]
    /\ fetchPc = "idle"
    /\ repoIdx = 0
    /\ all_commits = << >>
    /\ aggregated = << >>
    /\ patchIdx = 0
    /\ patches = << >>
    /\ patchRequests = << >>

\* prepare_commits_for_analysis before it is called
PrepIdle ==
    /\ prepPc = "idle"
    /\ prepCommits = << >>
    /\ prepPatches = << >>
    /\ commit_summaries = << >>

\* the reply parsers before they are called
ParseIdle ==
    /\ parser = "none"
    /\ replies = << >>
    /\ replyIdx = 0
    /\ parsed = << >>

\* evaluate_candidates before it is called
BatchIdle ==
    /\ candidates = << >>
    /\ cand = 0
    /\ batchPc = "idle"
    /\ results = << >>
    /\ trace = << >>

\* the entry points while none is running
EntryIdle ==
    /\ entry = "none"
    /\ has_api_key = TRUE
    /\ args = [no_rate |-> FALSE, output |-> FALSE]
    /\ entryPc = "idle"
    /\ calls = << >>
    /\ files = { }
    /\ reported = "none"

Init == HttpInit /\ FetchIdle /\ PrepIdle /\ ParseIdle /\ BatchIdle /\ EntryIdle

Next ==
    \/ api_request_except
    \/ api_request_rate_limited
    \/ api_request_return
    \/ get_commit_patch_request
    \/ get_commit_patch_response
    \/ get_user_repos_request
    \/ get_user_repos_response
    \/ get_commits_for_repo_request
    \/ get_commits_for_repo_response
    \/ search_github_users_request
    \/ search_github_users_response

Spec == Init /\ [][Next]_vars

(***************************************************************************)
(* The fetch stage: aggregate the commits of all repositories, sort them   *)
(* by author date, fetch patches.  It exists three times in the source:    *)
(* fetch_user_commits (batch), analyze (web) and main (CLI single user).   *)
(***************************************************************************)
PatchLimit == 50

MaxRepos == 2
MaxCommits == 4
MaxExtra == 2

\* the HTTP layer while it is not the subject
HttpIdle ==
    /\ op = "none"
    /\ apiPc = "idle"
    /\ attempt = 0
    /\ apiResult = NoResponse
    /\ apiLog = << >>
    /\ warned = FALSE
    /\ callerPc = "idle"
    /\ page = 1
    /\ acc = << >>
    /\ requested = << >>
    /\ patchOut = "None"
    /\ server = << >>
    /\ max_results = 0

\* commit["commit"]["author"]["date"]: an ISO 8601 string of fixed width, here
\* two digits; the sort compares the strings, the claim speaks of the instants
Dates == {<<0, 9>>, <<1, 0>>, <<1, 1>>}
DateCycle == <<(<<1, 0>>), (<<0, 9>>), (<<1, 1>>)>>
TimeOf(date) == 10 * date[1] + date[2]

\* Python's str < str
RECURSIVE StrLess(_, _)
StrLess(a, b) ==
    IF b = << >> THEN FALSE
    ELSE IF a = << >> THEN TRUE
    ELSE IF Head(a) # Head(b) THEN Head(a) < Head(b)
    ELSE StrLess(Tail(a), Tail(b))

\* list.sort(key=date, reverse=True): descending, equal keys keep their order
\* variant: an element is placed in front of the elements with an equal key
RECURSIVE InsertDesc_BeforeEqual(_, _)
InsertDesc_BeforeEqual(sorted, x) ==
    IF sorted = << >> THEN <<x>>
    ELSE IF ~StrLess(x.date, Head(sorted).date) THEN <<x>> \o sorted
    ELSE <<Head(sorted)>> \o InsertDesc_BeforeEqual(Tail(sorted), x)

RECURSIVE InsertDesc(_, _)
InsertDesc(sorted, x) ==
    IF sorted = << >> THEN <<x>>
    ELSE IF StrLess(Head(sorted).date, x.date) THEN <<x>> \o sorted
    ELSE <<Head(sorted)>> \o InsertDesc(Tail(sorted), x)

RECURSIVE SortByDateDesc(_)
SortByDateDesc(s) ==
    IF s = << >> THEN << >>
    ELSE InsertDesc(SortByDateDesc(SubSeq(s, 1, Len(s) - 1)), s[Len(s)])

\* the inputs: a few repositories with a few commits each, and single
\* repositories with about PatchLimit commits
RECURSIVE RepoLists(_, _)
RepoLists(k, n) ==
    IF k = 0 THEN {<< >>}
    ELSE {<< >>} \cup UNION {{<<r>> \o rest : rest \in RepoLists(k - 1, n - Len(r))} :
                                r \in SeqsUpTo(Dates, n)}

SmallInputs == RepoLists(MaxRepos, MaxCommits)
LongRepo(n) == [i \in 1..n |-> DateCycle[(i % 3) + 1]]
LongInputs == {<<LongRepo(n)>> : n \in (PatchLimit - 1)..(PatchLimit + MaxExtra)}
FetchInputs == SmallInputs \cup LongInputs

NoFault == [sha |-> 0, kind |-> "none"]
Faults == {NoFault, [sha |-> 1, kind |-> "non200"], [sha |-> 2, kind |-> "raise"]}

\* the items get_commits_for_repo yields for repository r; shas number the
\* commits in the order of aggregation
RepoItems(r, offset) ==
    [k \in 1..Len(repoCommits[r]) |->
        [repo |-> r, sha |-> offset + k, date |-> repoCommits[r][k]]]

PutPatch(d, sha, text) ==
    [x \in DOMAIN d \cup {sha} |-> IF x = sha THEN text ELSE d[x]]

\* repos = get_user_repos(...); `if not repos: return`
GetRepos(m) ==
    /\ mode = m
    /\ fetchPc = "repos"
    /\ IF repoCommits = << >>
       THEN fetchPc' = "norepos" /\ UNCHANGED repoIdx
       ELSE fetchPc' = "collect" /\ repoIdx' = 1
    /\ UNCHANGED <<mode, repoCommits, fault, all_commits, aggregated,
                   patchIdx, patches, patchRequests>>
    /\ UNCHANGED notFetch

\* one round of `for repo in repos`; emptyStops: the web handler returns an
\* error page when no commit was found
Collect(m, emptyStops) ==
    /\ mode = m
    /\ fetchPc = "collect"
    /\ LET got == all_commits \o RepoItems(repoIdx, Len(all_commits))
       IN /\ all_commits' = got
          /\ repoIdx' = repoIdx + 1
          /\ fetchPc' = IF repoIdx < Len(repoCommits) THEN "collect"
                        ELSE IF emptyStops /\ got = << >> THEN "nocommits"
                        ELSE "sort"
    /\ UNCHANGED <<mode, repoCommits, fault, aggregated, patchIdx, patches, patchRequests>>
    /\ UNCHANGED notFetch

\* all_commits.sort(key=..., reverse=True)
Sort(m) ==
    /\ mode = m
    /\ fetchPc = "sort"
    /\ aggregated' = all_commits
    /\ all_commits' = SortByDateDesc(all_commits)
    /\ patchIdx' = 1
    /\ fetchPc' = IF all_commits = << >> THEN "done" ELSE "patches"
    /\ UNCHANGED <<mode, repoCommits, fault, repoIdx, patches, patchRequests>>
    /\ UNCHANGED notFetch

\* one round of the patch loop over `list`
Patch(m, list) ==
    /\ mode = m
    /\ fetchPc = "patches"
    /\ LET item == list[patchIdx]
       IN /\ patchRequests' = Append(patchRequests, item.sha)
          /\ IF fault.sha = item.sha /\ fault.kind = "raise"
             THEN /\ fetchPc' = "raised"
                  /\ UNCHANGED <<patchIdx, patches>>
             ELSE /\ patches' = PutPatch(patches, item.sha,
                                   IF fault.sha = item.sha THEN "" ELSE PatchText)
                  /\ patchIdx' = patchIdx + 1
                  /\ fetchPc' = IF patchIdx < Len(list) THEN "patches" ELSE "done"
    /\ UNCHANGED <<mode, repoCommits, fault, repoIdx, all_commits, aggregated>>
    /\ UNCHANGED notFetch

fetch_user_commits_repos == GetRepos("batch")
fetch_user_commits_collect == Collect("batch", FALSE)
fetch_user_commits_sort == Sort("batch")
\* variant: the patch loop runs over the whole list
fetch_user_commits_patch_NoSlice == Patch("batch", all_commits)
fetch_user_commits_patch == Patch("batch", Slice(all_commits, PatchLimit))

analyze_repos == GetRepos("web")
analyze_collect == Collect("web", TRUE)
analyze_sort == Sort("web")
analyze_patch == Patch("web", Slice(all_commits, PatchLimit))

main_repos == GetRepos("cli")
main_collect == Collect("cli", FALSE)
main_sort == Sort("cli")
main_patch == Patch("cli", all_commits)

Modes == {"batch", "web", "cli"}

FetchInit ==
    /\ mode \in Modes
    /\ repoCommits \in FetchInputs
    /\ fault \in Faults
    /\ fetchPc = "repos"
    /\ repoIdx = 0
    /\ all_commits = << >>
    /\ aggregated = << >>
    /\ patchIdx = 0
    /\ patches = << >>
    /\ patchRequests = << >>

InitFetch == FetchInit /\ HttpIdle /\ PrepIdle /\ ParseIdle /\ BatchIdle /\ EntryIdle

NextFetch ==
    \/ fetch_user_commits_repos
    \/ fetch_user_commits_collect
    \/ fetch_user_commits_sort
    \/ fetch_user_commits_patch
    \/ analyze_repos
    \/ analyze_collect
    \/ analyze_sort
    \/ analyze_patch
    \/ main_repos
    \/ main_collect
    \/ main_sort
    \/ main_patch

SpecFetch == InitFetch /\ [][NextFetch]_vars

(***************************************************************************)
(* prepare_commits_for_analysis                                            *)
(***************************************************************************)
TruncateAt == 3000
ShortShaLen == 7

MaxPrepCommits == 2
MaxOver == 2

\* "\n... (truncated)"
TruncationSuffix ==
    <<"\n", ".", ".", ".", " ", "(", "t", "r", "u", "n", "c", "a", "t", "e", "d", ")">>

\* variant: a patch of exactly TruncateAt characters is cut as well
TruncatePatch_AtLimit(patch) ==
    IF Len(patch) >= TruncateAt
    THEN SubSeq(patch, 1, TruncateAt) \o TruncationSuffix
    ELSE patch

\* if len(patch) > 3000: patch = patch[:3000] + "\n... (truncated)"
TruncatePatch(patch) ==
    IF Len(patch) > TruncateAt
    THEN SubSeq(patch, 1, TruncateAt) \o TruncationSuffix
    ELSE patch

\* patches.get(sha, "")
DictGet(dict, key, default) == IF key \in DOMAIN dict THEN dict[key] ELSE default

\* the dict appended for one item of all_commits
Summary(item, dict) ==
    [sha |-> SubSeq(item.sha, 1, IF Len(item.sha) < ShortShaLen
                                  THEN Len(item.sha) ELSE ShortShaLen),
     repo |-> item.repo,
     date |-> item.date,
     message |-> item.message,
     patch |-> TruncatePatch(DictGet(dict, item.sha, << >>))]

\* inputs: commits whose shas differ only after the seventh character, and
\* patches around the limit
PrepSha(i) == <<1, 1, 1, 1, 1, 1, 1, i>>
PrepItem(i) == [sha |-> PrepSha(i), repo |-> i, date |-> <<1, 0>>, message |-> "msg"]
Fill(n, c) == [i \in 1..n |-> c]
PatchTexts ==
    {Fill(n, "x") : n \in {0, 1, TruncateAt - 1, TruncateAt}}
    \cup {Fill(TruncateAt, "x") \o Fill(n, "y") : n \in 1..MaxOver}
    \cup {Fill(1, "y")}

prepare_commits_for_analysis ==
    /\ prepPc = "call"
    /\ commit_summaries' =
          [i \in 1..Len(prepCommits) |-> Summary(prepCommits[i], prepPatches)]
    /\ prepPc' = "returned"
    /\ UNCHANGED <<prepCommits, prepPatches>>
    /\ UNCHANGED notPrep

PrepInit ==
    /\ prepPc = "call"
    /\ \E n \in 0..MaxPrepCommits : prepCommits = [i \in 1..n |-> PrepItem(i)]
    /\ \E known \in SUBSET {PrepSha(i) : i \in 1..Len(prepCommits)} :
          prepPatches \in [known -> PatchTexts]
    /\ commit_summaries = << >>

InitPrep == PrepInit /\ HttpIdle /\ FetchIdle /\ ParseIdle /\ BatchIdle /\ EntryIdle

NextPrep == prepare_commits_for_analysis

SpecPrep == InitPrep /\ [][NextPrep]_vars

(***************************************************************************)
(* The LLM reply parsers: strip a code fence, json.loads, fall back        *)
(***************************************************************************)
\* Texts are sequences of characters; Tick stands for the backquote character.
Quote == "\""
Tick == "tick"
Fence == <<Tick, Tick, Tick>>
FenceJson == Fence \o <<"j", "s", "o", "n">>
Whitespace == {" ", "\n", "\t", "\r"}
Digits == {"0", "1", "2", "3", "4", "5", "6", "7", "8", "9"}

\* sep in s
StartsAt(s, sep, i) ==
    i + Len(sep) - 1 <= Len(s) /\ SubSeq(s, i, i + Len(sep) - 1) = sep

RECURSIVE FindFrom(_, _, _)
FindFrom(s, sep, i) ==
    IF i + Len(sep) - 1 > Len(s) THEN 0
    ELSE IF StartsAt(s, sep, i) THEN i
    ELSE FindFrom(s, sep, i + 1)

Contains(s, sep) == FindFrom(s, sep, 1) # 0

\* s.split(sep)
RECURSIVE Split(_, _)
Split(s, sep) ==
    LET at == FindFrom(s, sep, 1)
    IN IF at = 0 THEN <<s>>
       ELSE <<SubSeq(s, 1, at - 1)>> \o Split(SubSeq(s, at + Len(sep), Len(s)), sep)

\* s.strip()
RECURSIVE LStrip(_)
LStrip(s) == IF s # << >> /\ Head(s) \in Whitespace THEN LStrip(Tail(s)) ELSE s

RECURSIVE RStrip(_)
RStrip(s) ==
    IF s # << >> /\ s[Len(s)] \in Whitespace THEN RStrip(SubSeq(s, 1, Len(s) - 1)) ELSE s

Strip(s) == RStrip(LStrip(s))

\* json.loads for the JSON made of integers, strings without escapes, arrays
\* and objects; a decoded value is a record [t, v]
NoValue == [t |-> "none", v |-> << >>]
JsonFail == [ok |-> FALSE, val |-> NoValue, next |-> 0]
JsonOk(val, next) == [ok |-> TRUE, val |-> val, next |-> next]

RECURSIVE SkipWS(_, _)
SkipWS(s, i) == IF i <= Len(s) /\ s[i] \in Whitespace THEN SkipWS(s, i + 1) ELSE i

RECURSIVE ScanDigits(_, _)
ScanDigits(s, i) == IF i <= Len(s) /\ s[i] \in Digits THEN ScanDigits(s, i + 1) ELSE i

\* index of the closing quote of a string whose content starts at i; 0 when
\* the string is not closed or holds a control character
RECURSIVE ScanString(_, _)
ScanString(s, i) ==
    IF i > Len(s) THEN 0
    ELSE IF s[i] = Quote THEN i
    ELSE IF s[i] \in {"\n", "\t", "\r"} THEN 0
    ELSE ScanString(s, i + 1)

RECURSIVE ParseValue(_, _)
RECURSIVE ParseElements(_, _, _)
RECURSIVE ParseMembers(_, _, _)

ParseValue(s, from) ==
    LET i == SkipWS(s, from)
    IN IF i > Len(s) THEN JsonFail
       ELSE IF s[i] = "0" THEN JsonOk([t |-> "num", v |-> <<"0">>], i + 1)
       ELSE IF s[i] \in Digits
       THEN LET j == ScanDigits(s, i)
            IN JsonOk([t |-> "num", v |-> SubSeq(s, i, j - 1)], j)
       ELSE IF s[i] = Quote
       THEN LET j == ScanString(s, i + 1)
            IN IF j = 0 THEN JsonFail
               ELSE JsonOk([t |-> "str", v |-> SubSeq(s, i + 1, j - 1)], j + 1)
       ELSE IF s[i] = "["
       THEN LET j == SkipWS(s, i + 1)
            IN IF j <= Len(s) /\ s[j] = "]"
               THEN JsonOk([t |-> "arr", v |-> << >>], j + 1)
               ELSE ParseElements(s, i + 1, << >>)
       ELSE IF s[i] = "{"
       THEN LET j == SkipWS(s, i + 1)
            IN IF j <= Len(s) /\ s[j] = "}"
               THEN JsonOk([t |-> "obj", v |-> << >>], j + 1)
               ELSE ParseMembers(s, i + 1, << >>)
       ELSE JsonFail

ParseElements(s, from, sofar) ==
    LET r == ParseValue(s, from)
    IN IF ~r.ok THEN JsonFail
       ELSE LET j == SkipWS(s, r.next)
                elems == Append(sofar, r.val)
            IN IF j > Len(s) THEN JsonFail
               ELSE IF s[j] = "," THEN ParseElements(s, j + 1, elems)
               ELSE IF s[j] = "]" THEN JsonOk([t |-> "arr", v |-> elems], j + 1)
               ELSE JsonFail

ParseMembers(s, from, sofar) ==
    LET q == SkipWS(s, from)
    IN IF q > Len(s) \/ s[q] # Quote THEN JsonFail
       ELSE LET e == ScanString(s, q + 1)
            IN IF e = 0 THEN JsonFail
               ELSE LET c == SkipWS(s, e + 1)
                    IN IF c > Len(s) \/ s[c] # ":" THEN JsonFail
                       ELSE LET r == ParseValue(s, c + 1)
                            IN IF ~r.ok THEN JsonFail
                               ELSE LET j == SkipWS(s, r.next)
                                        members == Append(sofar,
                                            [key |-> SubSeq(s, q + 1, e - 1), val |-> r.val])
                                    IN IF j > Len(s) THEN JsonFail
                                       ELSE IF s[j] = "," THEN ParseMembers(s, j + 1, members)
                                       ELSE IF s[j] = "}"
                                       THEN JsonOk([t |-> "obj", v |-> members], j + 1)
                                       ELSE JsonFail

\* json.loads(text): the value, or JSONDecodeError (ok = FALSE)
json_loads(text) ==
    LET r == ParseValue(text, 1)
    IN IF r.ok /\ SkipWS(text, r.next) > Len(text)
       THEN [ok |-> TRUE, val |-> r.val]
       ELSE [ok |-> FALSE, val |-> NoValue]

\* the reassignment of response_text before json.loads
StripFences(response_text) ==
    IF Contains(response_text, FenceJson)
    THEN Split(Split(response_text, FenceJson)[2], Fence)[1]
    ELSE IF Contains(response_text, Fence)
    THEN Split(Split(response_text, Fence)[2], Fence)[1]
    ELSE response_text

\* what a parser returns: the decoded value, or its fallback dict, given by
\* the key that holds the text, the text, and the other entries
Decoded(val) == [kind |-> "json", value |-> val, rawKey |-> "", raw |-> << >>, extra |-> {}]
Fallback(key, text, others) ==
    [kind |-> "fallback", value |-> NoValue, rawKey |-> key, raw |-> text, extra |-> others]

ParseReply(message_text, key, others) ==
    LET response_text == StripFences(message_text)
        analysis == json_loads(Strip(response_text))
    IN IF analysis.ok THEN Decoded(analysis.val)
       ELSE Fallback(key, response_text, others)

ParseStep(name, key, others) ==
    /\ parser = name
    /\ replyIdx < Len(replies)
    /\ replyIdx' = replyIdx + 1
    /\ parsed' = Append(parsed, ParseReply(replies[replyIdx + 1], key, others))
    /\ UNCHANGED <<parser, replies>>
    /\ UNCHANGED notParse

analyze_commits_with_claude_parse ==
    ParseStep("analyze_commits_with_claude", "raw_response", {})

analyze_candidate_for_job_parse_NoScores ==
    ParseStep("analyze_candidate_for_job", "raw_response", {})

analyze_candidate_for_job_parse ==
    ParseStep("analyze_candidate_for_job", "raw_response",
              {"job_fit_score: 0", "overall_score: 0"})

parse_job_description_parse ==
    ParseStep("parse_job_description", "raw",
              {"required_skills: []", "level: unspecified"})

\* the replies: a JSON text as it is, in a fence tagged json, in a bare fence
StrLit(chars) == <<Quote>> \o chars \o <<Quote>>
Obj1(key, valueText) == <<"{">> \o StrLit(key) \o <<":">> \o valueText \o <<"}">>

JsonTexts ==
    { <<"{", "}">>,
      <<"[", "]">>,
      <<"7">>,
      <<"[", "1", ",", "2", "]">>,
      StrLit(<<"x">>),
      StrLit(<<Tick, Tick>>),
      Obj1(<<"a">>, <<"1">>),
      Obj1(<<"a">>, <<"[", "1", "]">>),
      Obj1(<<"a">>, StrLit(<<"x", " ", "x">>)),
      Obj1(<<"a">>, StrLit(Fence)),
      Obj1(<<"a">>, StrLit(Fence \o <<"1">> \o Fence)),
      Obj1(<<"a">>, StrLit(FenceJson)) }

Tagged(j) == FenceJson \o <<"\n">> \o j \o <<"\n">> \o Fence
Bare(j) == Fence \o <<"\n">> \o j \o <<"\n">> \o Fence

\* replies that are not JSON, with and without fence markers in them
MalformedTexts ==
    { << >>,
      <<"o", "o", "p", "s">>,
      <<"{">> \o StrLit(<<"a">>) \o <<":">>,
      Fence,
      Tagged(<<"{", "o", "o", "p", "s">>),
      <<"S", "e", "e", " ">> \o Bare(<<"o", "k", "?">>),
      <<"7", " ">> \o Fence }

Parsers == {"analyze_commits_with_claude", "analyze_candidate_for_job", "parse_job_description"}

ParseInit ==
    /\ parser \in Parsers
    /\ \/ \E j \in JsonTexts : replies = <<j, Tagged(j), Bare(j)>>
       \/ \E m \in MalformedTexts : replies = <<m>>
    /\ replyIdx = 0
    /\ parsed = << >>

InitParse == ParseInit /\ HttpIdle /\ FetchIdle /\ PrepIdle /\ BatchIdle /\ EntryIdle

NextParse ==
    \/ analyze_commits_with_claude_parse
    \/ analyze_candidate_for_job_parse
    \/ parse_job_description_parse

SpecParse == InitParse /\ [][NextParse]_vars

(***************************************************************************)
(* evaluate_candidates: fetch, prepare, evaluate and rank each candidate   *)
(***************************************************************************)
MaxCandidates == 3

ScoreKey == <<"j", "o", "b", "_", "f", "i", "t", "_", "s", "c", "o", "r", "e">>
ScoreReply(valueText) == Obj1(ScoreKey, valueText)

\* what analyze_candidate_for_job returns for a reply text
analyze_candidate_for_job_reply(message_text) ==
    ParseReply(message_text, "raw_response", {"job_fit_score: 0", "overall_score: 0"})

\* a value that has .get: a decoded JSON object or the fallback dict
IsDict(analysis) == analysis.kind = "fallback" \/ analysis.value.t = "obj"

\* analysis.get("job_fit_score", 0) of a dict; a key given twice in the JSON
\* text holds its last value, the fallback dict holds 0
Zero == [t |-> "num", v |-> <<"0">>]
job_fit_score(analysis) ==
    IF analysis.kind = "fallback" THEN Zero
    ELSE LET members == analysis.value.v
             hits == {i \in 1..Len(members) : members[i].key = ScoreKey}
         IN IF hits = {} THEN Zero
            ELSE members[CHOOSE i \in hits : \A j \in hits : j <= i].val

DigitSeq == <<"0", "1", "2", "3", "4", "5", "6", "7", "8", "9">>
DigitVal(c) == (CHOOSE n \in 1..10 : DigitSeq[n] = c) - 1

RECURSIVE NumVal(_)
NumVal(digits) ==
    IF digits = << >> THEN 0
    ELSE 10 * NumVal(SubSeq(digits, 1, Len(digits) - 1)) + DigitVal(digits[Len(digits)])

\* Python's a < b for two scores: numbers by value, strings (of digits here)
\* character by character; any other pairing raises TypeError
Comparable(a, b) == a.t = b.t /\ a.t \in {"num", "str"}
KeyLess(a, b) ==
    IF a.t = "num" THEN NumVal(a.v) < NumVal(b.v)
    ELSE StrLess([i \in 1..Len(a.v) |-> DigitVal(a.v[i])],
                 [i \in 1..Len(b.v) |-> DigitVal(b.v[i])])

\* results.sort(key=..., reverse=True) raises: AttributeError when an analysis
\* has no .get, TypeError when two scores cannot be compared
SortRaises(list) ==
    \/ \E i \in 1..Len(list) : ~IsDict(list[i].analysis)
    \/ \E i, j \in 1..Len(list) :
          i # j /\ ~Comparable(job_fit_score(list[i].analysis), job_fit_score(list[j].analysis))

\* variant: ascending order
RECURSIVE InsertByScore_Ascending(_, _)
InsertByScore_Ascending(sorted, x) ==
    IF sorted = << >> THEN <<x>>
    ELSE IF KeyLess(job_fit_score(x.analysis), job_fit_score(Head(sorted).analysis))
    THEN <<x>> \o sorted
    ELSE <<Head(sorted)>> \o InsertByScore_Ascending(Tail(sorted), x)

RECURSIVE InsertByScore(_, _)
InsertByScore(sorted, x) ==
    IF sorted = << >> THEN <<x>>
    ELSE IF KeyLess(job_fit_score(Head(sorted).analysis), job_fit_score(x.analysis))
    THEN <<x>> \o sorted
    ELSE <<Head(sorted)>> \o InsertByScore(Tail(sorted), x)

RECURSIVE SortByScoreDesc(_)
SortByScoreDesc(s) ==
    IF s = << >> THEN << >>
    ELSE InsertByScore(SortByScoreDesc(SubSeq(s, 1, Len(s) - 1)), s[Len(s)])

\* the commit dicts and the patch dict of the fetch stage as
\* prepare_commits_for_analysis reads them
AsItem(c) == [sha |-> <<c.sha>>, repo |-> c.repo, date |-> c.date, message |-> "msg"]
AsPatches(d) ==
    [s \in {<<x>> : x \in DOMAIN d} |->
        IF d[s[1]] = PatchText THEN <<"d", "i", "f", "f">> ELSE << >>]

Event(c, k, n) == [cand |-> c, kind |-> k, entries |-> n]

\* the variables evaluate_candidates never touches itself
batchFrame == <<httpVars, parseVars, entryVars, prepPc, prepCommits, prepPatches,
                candidates, mode>>
fetchLocals == <<repoCommits, fault, fetchPc, repoIdx, all_commits, aggregated,
                 patchIdx, patches, patchRequests>>

\* loop head, then the call fetch_user_commits(username, headers)
evaluate_candidates_fetch ==
    /\ batchPc = "loop"
    /\ cand <= Len(candidates)
    /\ repoCommits' = candidates[cand].repos
    /\ fault' = candidates[cand].fault
    /\ fetchPc' = "repos"
    /\ repoIdx' = 0
    /\ all_commits' = << >>
    /\ aggregated' = << >>
    /\ patchIdx' = 0
    /\ patches' = << >>
    /\ patchRequests' = << >>
    /\ batchPc' = "fetching"
    /\ trace' = Append(trace, Event(cand, "fetch", 0))
    /\ UNCHANGED <<cand, results, commit_summaries>>
    /\ UNCHANGED batchFrame

\* variant: a candidate without commits is not skipped
evaluate_candidates_fetched_NoSkip ==
    /\ batchPc = "fetching"
    /\ fetchPc \in {"done", "raised", "norepos"}
    /\ IF fetchPc = "raised"
       THEN batchPc' = "loop" /\ cand' = cand + 1
       ELSE batchPc' = "prepare" /\ UNCHANGED cand
    /\ UNCHANGED <<results, trace, commit_summaries>>
    /\ UNCHANGED fetchLocals
    /\ UNCHANGED batchFrame

\* fetch_user_commits has returned or raised: `if not all_commits: continue`,
\* `except Exception: continue`
evaluate_candidates_fetched ==
    /\ batchPc = "fetching"
    /\ fetchPc \in {"done", "raised", "norepos"}
    /\ IF fetchPc = "raised" \/ all_commits = << >>
       THEN batchPc' = "loop" /\ cand' = cand + 1
       ELSE batchPc' = "prepare" /\ UNCHANGED cand
    /\ UNCHANGED <<results, trace, commit_summaries>>
    /\ UNCHANGED fetchLocals
    /\ UNCHANGED batchFrame

\* commit_summaries = prepare_commits_for_analysis(all_commits, patches)
evaluate_candidates_prepare ==
    /\ batchPc = "prepare"
    /\ commit_summaries' =
          [i \in 1..Len(all_commits) |-> Summary(AsItem(all_commits[i]), AsPatches(patches))]
    /\ batchPc' = "evaluate"
    /\ trace' = Append(trace, Event(cand, "prepare", 0))
    /\ UNCHANGED <<cand, results>>
    /\ UNCHANGED fetchLocals
    /\ UNCHANGED batchFrame

\* analyze_candidate_for_job puts every summary into the prompt and calls the
\* LLM; then results.append(...) and time.sleep(1), or `except Exception`
evaluate_candidates_evaluate ==
    /\ batchPc = "evaluate"
    /\ LET asked == Append(trace, Event(cand, "llm", Len(commit_summaries)))
       IN IF candidates[cand].llm = "raise"
          THEN /\ trace' = asked
               /\ UNCHANGED results
          ELSE /\ results' = Append(results,
                     [username |-> cand,
                      commits_analyzed |-> Len(commit_summaries),
                      analysis |-> analyze_candidate_for_job_reply(candidates[cand].reply)])
               /\ trace' = asked \o <<Event(cand, "append", 0), Event(cand, "sleep", 1)>>
    /\ batchPc' = "loop"
    /\ cand' = cand + 1
    /\ UNCHANGED commit_summaries
    /\ UNCHANGED fetchLocals
    /\ UNCHANGED batchFrame

\* after the loop: results.sort(...); return results
evaluate_candidates_sort ==
    /\ batchPc = "loop"
    /\ cand > Len(candidates)
    /\ IF SortRaises(results)
       THEN batchPc' = "raised" /\ UNCHANGED results
       ELSE batchPc' = "returned" /\ results' = SortByScoreDesc(results)
    /\ UNCHANGED <<cand, trace, commit_summaries>>
    /\ UNCHANGED fetchLocals
    /\ UNCHANGED batchFrame

\* the candidates: what GitHub holds for the user (repositories with their
\* commits, a failing patch request) and what the LLM does
Profile(r, f, l, t) == [repos |-> r, fault |-> f, llm |-> l, reply |-> t]
OneCommit == << <<(<<1, 0>>)>> >>
TwoRepos == << <<(<<1, 0>>)>>, <<(<<1, 1>>)>> >>

ShortProfiles ==
    { Profile(OneCommit, NoFault, "reply", ScoreReply(<<"7">>)),
      Profile(TwoRepos, NoFault, "reply", Tagged(ScoreReply(<<"3">>))),
      Profile(OneCommit, NoFault, "reply", ScoreReply(<<"1", "0">>)),
      Profile(OneCommit, NoFault, "reply", Obj1(<<"a">>, <<"1">>)),
      Profile(OneCommit, NoFault, "reply", <<"o", "o", "p", "s">>),
      Profile(OneCommit, NoFault, "reply", <<"[", "1", "]">>),
      Profile(OneCommit, NoFault, "reply", ScoreReply(StrLit(<<"7">>))),
      Profile(OneCommit, NoFault, "raise", << >>),
      Profile(<< >>, NoFault, "reply", ScoreReply(<<"7">>)),
      Profile(<< << >> >>, NoFault, "reply", ScoreReply(<<"7">>)),
      Profile(OneCommit, [sha |-> 1, kind |-> "raise"], "reply", ScoreReply(<<"7">>)) }

LongProfile == Profile(<<LongRepo(PatchLimit + 1)>>, NoFault, "reply", ScoreReply(<<"7">>))

BatchInputs == SeqsUpTo(ShortProfiles, MaxCandidates) \cup {<<LongProfile>>}

BatchInit ==
    /\ candidates \in BatchInputs
    /\ cand = 1
    /\ batchPc = "loop"
    /\ results = << >>
    /\ trace = << >>

\* the fetch stage while evaluate_candidates has not called it
FetchReady ==
    /\ mode = "batch"
    /\ repoCommits = << >>
    /\ fault = NoFault
    /\ fetchPc = "idle"
    /\ repoIdx = 0
    /\ all_commits = << >>
    /\ aggregated = << >>
    /\ patchIdx = 0
    /\ patches = << >>
    /\ patchRequests = << >>

InitBatch == BatchInit /\ FetchReady /\ HttpIdle /\ PrepIdle /\ ParseIdle /\ EntryIdle

NextBatch ==
    \/ evaluate_candidates_fetch
    \/ fetch_user_commits_repos
    \/ fetch_user_commits_collect
    \/ fetch_user_commits_sort
    \/ fetch_user_commits_patch
    \/ evaluate_candidates_fetched
    \/ evaluate_candidates_prepare
    \/ evaluate_candidates_evaluate
    \/ evaluate_candidates_sort

SpecBatch == InitBatch /\ [][NextBatch]_vars

(***************************************************************************)
(* The entry points: main() in matching and in single-user mode, and the   *)
(* web handlers analyze, match and search                                  *)
(***************************************************************************)
Entries == {"cli_match", "cli_single", "web_analyze", "web_match", "web_search"}

Request(to, by) == [to |-> to, by |-> by]

\* a function that talks to the LLM is called: with a credential the request
\* is sent; without one the client raises before a request is sent (the
\* behaviour of the client library, which is not part of the source)
LLMCall(by) == IF has_api_key THEN Append(calls, Request("llm", by)) ELSE calls

\* the variables an entry point never touches itself
entryFrame == <<httpVars, prepVars, parseVars, batchVars, entry, has_api_key, args,
                mode, repoCommits, fault>>
fetchWork == <<repoIdx, all_commits, aggregated, patchIdx, patches, patchRequests>>

\* matching mode of main(): `if not has_api_key: print error; return`
main_match_check ==
    /\ entry = "cli_match"
    /\ entryPc = "start"
    /\ IF has_api_key
       THEN entryPc' = "jd" /\ UNCHANGED reported
       ELSE entryPc' = "done" /\ reported' = "key_missing"
    /\ UNCHANGED <<calls, files, fetchPc>>
    /\ UNCHANGED fetchWork
    /\ UNCHANGED entryFrame

\* parse_job_description, then the usernames: given, or searched on GitHub;
\* an exception ends main() and is rendered as an error by a handler
ParseJobDescription(e, from, viaSearch, caught) ==
    /\ entry = e
    /\ entryPc = from
    /\ IF ~has_api_key
       THEN /\ entryPc' = IF caught THEN "done" ELSE "crashed"
            /\ reported' = IF caught THEN "error" ELSE reported
            /\ UNCHANGED calls
       ELSE \E outcome \in {"found", "empty", "raised"} :
               IF outcome = "raised"
               THEN /\ calls' = LLMCall("parse_job_description")
                    /\ entryPc' = IF caught THEN "done" ELSE "crashed"
                    /\ reported' = IF caught THEN "error" ELSE reported
               ELSE /\ calls' = LLMCall("parse_job_description")
                                  \o (IF viaSearch
                                      THEN <<Request("github", "search_github_users")>>
                                      ELSE << >>)
                    /\ IF outcome = "found"
                       THEN entryPc' = "evaluate" /\ UNCHANGED reported
                       ELSE entryPc' = "done" /\ reported' = "empty"
    /\ UNCHANGED <<files, fetchPc>>
    /\ UNCHANGED fetchWork
    /\ UNCHANGED entryFrame

main_match_parse_users == ParseJobDescription("cli_match", "jd", FALSE, FALSE)
main_match_parse_search == ParseJobDescription("cli_match", "jd", TRUE, FALSE)
match_parse == ParseJobDescription("web_match", "start", FALSE, TRUE)
search_parse == ParseJobDescription("web_search", "start", TRUE, TRUE)

\* evaluate_candidates(usernames, ...) for at least one username: it asks
\* GitHub, and the LLM when a candidate has commits; then the report: main()
\* writes it to args.output, a handler renders it; an exception out of
\* evaluate_candidates ends main() and is caught by a handler
Evaluate(e, caught) ==
    /\ entry = e
    /\ entryPc = "evaluate"
    /\ \E outcome \in {"returned", "raised"}, evaluated \in BOOLEAN :
          /\ calls' = calls \o <<Request("github", "evaluate_candidates")>>
                          \o (IF evaluated THEN <<Request("llm", "evaluate_candidates")>>
                              ELSE << >>)
          /\ IF outcome = "returned"
             THEN /\ entryPc' = "done"
                  /\ reported' = "result"
                  /\ files' = IF e = "cli_match" /\ args.output THEN {"output"} ELSE files
             ELSE /\ entryPc' = IF caught THEN "done" ELSE "crashed"
                  /\ reported' = IF caught THEN "error" ELSE reported
                  /\ UNCHANGED files
    /\ UNCHANGED fetchPc
    /\ UNCHANGED fetchWork
    /\ UNCHANGED entryFrame

main_match_evaluate == Evaluate("cli_match", FALSE)
match_evaluate == Evaluate("web_match", TRUE)
search_evaluate == Evaluate("web_search", TRUE)

\* the first statement that talks to GitHub: repos = get_user_repos(...)
StartFetch(e) ==
    /\ entry = e
    /\ entryPc = "start"
    /\ entryPc' = "fetching"
    /\ fetchPc' = "repos"
    /\ calls' = Append(calls, Request("github", "get_user_repos"))
    /\ UNCHANGED <<files, reported>>
    /\ UNCHANGED fetchWork
    /\ UNCHANGED entryFrame

main_single_start == StartFetch("cli_single")
analyze_start == StartFetch("web_analyze")

\* variant: the commits file is written before the credential is looked at
main_single_rate_OutputBeforeKeyCheck ==
    /\ entry = "cli_single"
    /\ entryPc = "fetching"
    /\ fetchPc \in {"done", "norepos", "raised"}
    /\ IF fetchPc = "raised"
       THEN entryPc' = "crashed" /\ UNCHANGED <<calls, files, reported>>
       ELSE IF fetchPc = "norepos"
       THEN entryPc' = "done" /\ reported' = "empty" /\ UNCHANGED <<calls, files>>
       ELSE IF args.no_rate
       THEN /\ entryPc' = "done"
            /\ files' = IF args.output THEN {"output"} ELSE { }
            /\ UNCHANGED <<calls, reported>>
       ELSE IF ~has_api_key
       THEN /\ entryPc' = "done"
            /\ reported' = "key_missing"
            /\ files' = IF args.output THEN {"output"} ELSE { }
            /\ UNCHANGED calls
       ELSE /\ calls' = LLMCall("analyze_commits_with_claude")
            /\ \E answered \in BOOLEAN :
                  IF answered
                  THEN /\ entryPc' = "done"
                       /\ reported' = "result"
                       /\ files' = IF args.output THEN {"output_rating", "output"} ELSE { }
                  ELSE entryPc' = "crashed" /\ UNCHANGED <<files, reported>>
    /\ UNCHANGED fetchPc
    /\ UNCHANGED fetchWork
    /\ UNCHANGED entryFrame

\* single-user mode of main() after the patches: `if not args.no_rate:` check
\* the credential, analyze, write the rating file; then write the commits file
main_single_rate ==
    /\ entry = "cli_single"
    /\ entryPc = "fetching"
    /\ fetchPc \in {"done", "norepos", "raised"}
    /\ IF fetchPc = "raised"
       THEN entryPc' = "crashed" /\ UNCHANGED <<calls, files, reported>>
       ELSE IF fetchPc = "norepos"
       THEN entryPc' = "done" /\ reported' = "empty" /\ UNCHANGED <<calls, files>>
       ELSE IF args.no_rate
       THEN /\ entryPc' = "done"
            /\ files' = IF args.output THEN {"output"} ELSE { }
            /\ UNCHANGED <<calls, reported>>
       ELSE IF ~has_api_key
       THEN entryPc' = "done" /\ reported' = "key_missing" /\ UNCHANGED <<calls, files>>
       ELSE /\ calls' = LLMCall("analyze_commits_with_claude")
            /\ \E answered \in BOOLEAN :
                  IF answered
                  THEN /\ entryPc' = "done"
                       /\ reported' = "result"
                       /\ files' = IF args.output THEN {"output_rating", "output"} ELSE { }
                  ELSE entryPc' = "crashed" /\ UNCHANGED <<files, reported>>
    /\ UNCHANGED fetchPc
    /\ UNCHANGED fetchWork
    /\ UNCHANGED entryFrame

\* the analyze handler after the patches: prepare, analyze_commits_with_claude,
\* render; every exception is rendered as an error
analyze_evaluate ==
    /\ entry = "web_analyze"
    /\ entryPc = "fetching"
    /\ fetchPc \in {"done", "norepos", "nocommits", "raised"}
    /\ entryPc' = "done"
    /\ IF fetchPc = "raised"
       THEN reported' = "error" /\ UNCHANGED calls
       ELSE IF fetchPc \in {"norepos", "nocommits"}
       THEN reported' = "empty" /\ UNCHANGED calls
       ELSE /\ calls' = LLMCall("analyze_commits_with_claude")
            /\ IF has_api_key
               THEN \E answered \in BOOLEAN : reported' = IF answered THEN "result" ELSE "error"
               ELSE reported' = "error"
    /\ UNCHANGED <<files, fetchPc>>
    /\ UNCHANGED fetchWork
    /\ UNCHANGED entryFrame

\* what GitHub holds for the user of a single-user run
EntryRepos == {<< >>, << << >> >>, OneCommit, TwoRepos}
EntryFaults == {NoFault, [sha |-> 1, kind |-> "raise"]}

EntryInit ==
    /\ entry \in Entries
    /\ has_api_key \in BOOLEAN
    /\ args \in IF entry \in {"cli_match", "cli_single"}
                THEN [no_rate : IF entry = "cli_single" THEN BOOLEAN ELSE {FALSE},
                      output : BOOLEAN]
                ELSE {[no_rate |-> FALSE, output |-> FALSE]}
    /\ entryPc = "start"
    /\ calls = << >>
    /\ files = { }
    /\ reported = "none"
    /\ mode = IF entry = "cli_single" THEN "cli"
              ELSE IF entry = "web_analyze" THEN "web" ELSE "none"
    /\ repoCommits \in IF mode = "none" THEN {<< >>} ELSE EntryRepos
    /\ fault \in IF mode = "none" THEN {NoFault} ELSE EntryFaults
    /\ fetchPc = "idle"
    /\ repoIdx = 0
    /\ all_commits = << >>
    /\ aggregated = << >>
    /\ patchIdx = 0
    /\ patches = << >>
    /\ patchRequests = << >>

InitEntry == EntryInit /\ HttpIdle /\ PrepIdle /\ ParseIdle /\ BatchIdle

NextEntry ==
    \/ main_match_check
    \/ main_match_parse_users
    \/ main_match_parse_search
    \/ main_match_evaluate
    \/ match_parse
    \/ match_evaluate
    \/ search_parse
    \/ search_evaluate
    \/ main_single_start
    \/ main_repos
    \/ main_collect
    \/ main_sort
    \/ main_patch
    \/ main_single_rate
    \/ analyze_start
    \/ analyze_repos
    \/ analyze_collect
    \/ analyze_sort
    \/ analyze_patch
    \/ analyze_evaluate

SpecEntry == InitEntry /\ [][NextEntry]_vars

(***************************************************************************)
(* Properties of api_request                                               *)
(***************************************************************************)
Last(s) == s[Len(s)]

RECURSIVE Flatten(_)
Flatten(ss) == IF ss = << >> THEN << >> ELSE Head(ss) \o Flatten(Tail(ss))

RECURSIVE Sleeps(_)
Sleeps(log) == IF log = << >> THEN << >> ELSE Head(log).slept \o Sleeps(Tail(log))

OnlyKind(log, k) == \A i \in 1..Len(log) : log[i].kind = k

\* C1: whatever the GETs answer, api_request ends by returning a response
\* object or by raising; it never returns None.
C1_ReturnsResponseOrRaises ==
    apiPc = "returned" => apiResult.kind = "response"

\* C2: a rate-limit 403 does not use up the retry budget: after a rate-limit
\* 403 api_request always goes on to the next GET, so the rejection is never
\* handed to the caller as an error or as a missing response.
C2_RateLimitRetryIsFree ==
    [][(apiPc = "get" /\ Len(apiLog') = Len(apiLog) + 1 /\ Last(apiLog').kind = "ratelimit")
         => apiPc' = "get"]_vars

\* C3: on connection failures alone api_request retries three times, sleeping
\* 1s, 2s and 4s before the retries, and raises only after the third retry failed.
C3_ThreeRetriesBackoff124 ==
    (apiPc = "raised" /\ OnlyKind(apiLog, "fail"))
        => (Sleeps(apiLog) = <<1, 2, 4>> /\ Len(apiLog) = 4)

\* C4 as stated: a rate-limit 403 with X-RateLimit-Remaining 0 and a reset
\* timestamp sleeps reset - now + 1, every other rate-limit 403 sleeps 60s,
\* and exactly one sleep is made per rate-limit 403.
C4_Original ==
    \A i \in 1..Len(apiLog) :
        apiLog[i].kind = "ratelimit" =>
            apiLog[i].slept =
                IF apiLog[i].remaining = 0 /\ apiLog[i].reset # Absent
                THEN <<apiLog[i].reset - apiLog[i].now + 1>>
                ELSE <<FlatWait>>

\* C4 amended: the sleep until reset + 1 is made only when that moment lies in
\* the future (reset - now + 1 > 0); otherwise, and in every other case, the
\* sleep is the flat 60s; exactly one sleep is made per rate-limit 403.
C4_RateLimitSleep ==
    \A i \in 1..Len(apiLog) :
        apiLog[i].kind = "ratelimit" =>
            apiLog[i].slept =
                IF /\ apiLog[i].remaining = 0
                   /\ apiLog[i].reset # Absent
                   /\ apiLog[i].reset - apiLog[i].now + 1 > 0
                THEN <<apiLog[i].reset - apiLog[i].now + 1>>
                ELSE <<FlatWait>>

C4_Witness ==
    /\ Len(apiLog) >= 2
    /\ apiLog[1].kind = "ratelimit" /\ apiLog[1].remaining = 0
    /\ apiLog[1].reset = Now0 + 4 /\ apiLog[1].slept = <<5>>
    /\ apiLog[2].kind = "ratelimit" /\ apiLog[2].remaining = 0
    /\ apiLog[2].reset = Now0 - 1 /\ apiLog[2].slept = <<FlatWait>>

\* the GETs issued so far by the current call of api_request
Gets == Len(apiLog) + IF apiPc = "returned" /\ apiResult.kind = "response" THEN 1 ELSE 0

\* C20: a call of api_request issues at most max_retries GETs, whatever mix
\* of connection failures and rate-limit 403s it meets: both kinds of retry
\* advance the one loop counter, and after max_retries unanswered GETs the
\* call is over.
C20_AtMostMaxRetriesGets ==
    /\ Gets <= max_retries
    /\ apiPc = "get" => (attempt = Len(apiLog) /\ attempt < max_retries)
    /\ Len(apiLog) = max_retries => api_done

C20_Witness ==
    /\ api_done /\ Len(apiLog) = max_retries
    /\ apiLog[1].kind = "fail" /\ apiLog[2].kind = "ratelimit" /\ apiLog[3].kind = "fail"

(***************************************************************************)
(* Properties of the listers                                               *)
(***************************************************************************)
Listing == op \in {"get_user_repos", "get_commits_for_repo"}

UpTo(n) == [i \in 1..n |-> i]

\* C5: when every page request is answered 200 and the listing ends with an
\* empty page, the lister returns the concatenation of the non-empty pages in
\* page order.
C5_PagesConcatenated ==
    (Listing /\ callerPc = "returned" /\ apiResult.kind = "response" /\ apiResult.status = 200)
        => (acc = Flatten(server) /\ requested = UpTo(Len(server) + 1))

C5_Witness ==
    /\ op = "get_user_repos" /\ callerPc = "returned"
    /\ apiResult.kind = "response" /\ apiResult.status = 200
    /\ Len(server) >= 2 /\ Len(acc) >= 3

\* C6: a non-200 response for page k ends the listing without a retry of the
\* page and without an exception; the result is the items of pages 1..k-1.
C6_NonOkStopsWithPartial ==
    (/\ Listing /\ callerPc \in {"returned", "raised"}
     /\ apiPc = "returned" /\ apiResult.kind = "response" /\ apiResult.status # 200)
        => (/\ callerPc = "returned"
            /\ acc = Flatten(SubSeq(server, 1, page - 1))
            /\ requested = UpTo(page))

\* C22: a 403 without "rate limit" in its body, and any response of another
\* status, is returned by the GET that received it, with no sleep and no
\* retry: a low X-RateLimit-Remaining only sets the warning. Every retry in
\* the log is a connection failure or a 403 with "rate limit" in its body.
C22_OtherResponsesReturnedAtOnce ==
    [][/\ \A i \in 1..Len(apiLog') :
             /\ apiLog'[i].kind = "ratelimit" =>
                   (apiLog'[i].status = 403 /\ apiLog'[i].rateText)
             /\ apiLog'[i].kind = "fail" => apiLog'[i].status = NoResponse.status
       /\ (apiPc = "get" /\ apiResult'.kind = "response") =>
             /\ apiPc' = "returned"
             /\ ~(apiResult'.status = 403 /\ apiResult'.rateText)
             /\ apiLog' = apiLog
             /\ attempt' = attempt
             /\ warned' = (apiResult'.remaining # Absent /\ apiResult'.remaining < WarnBelow)]_vars

C22_Witness ==
    /\ apiPc = "returned" /\ apiResult.kind = "response"
    /\ apiResult.status = 403 /\ ~apiResult.rateText /\ apiResult.remaining = 5
    /\ warned /\ apiLog = << >> /\ attempt = 0

\* api_request handed the lister an empty page or a non-200 response
StopResponse ==
    apiResult.kind = "response" /\ (apiResult.status # 200 \/ apiResult.data = << >>)

Ended == callerPc \in {"returned", "raised"}

\* the pages are asked for in the order 1, 2, 3, ..., each once, and the loop
\* goes round again only after a 200 response with items
PagesInOrder ==
    /\ requested = UpTo(Len(requested))
    /\ page \in {Len(requested), Len(requested) + 1}
    /\ (callerPc = "loop" /\ requested # << >>) =>
          (apiResult.kind = "response" /\ ~StopResponse /\ page = Len(requested) + 1)

\* C21 as stated: a lister asks for the pages 1, 2, 3, ... in order, each at
\* most once, asks for nothing after the first empty page or non-200
\* response, and its call ends if and only if such a response has arrived.
C21_Original ==
    Listing => (PagesInOrder /\ (Ended => StopResponse))

\* C21 amended: the pages are asked for in order, each at most once, and
\* nothing is asked for after the first empty page or non-200 response, which
\* ends the call; the call also ends, by an exception, when api_request raises
\* or hands back no response. It returns only after an empty page or a
\* non-200 response.
C21_PagesInOrderUntilStop ==
    Listing =>
        /\ PagesInOrder
        /\ Ended => (StopResponse \/ apiPc = "raised" \/ apiResult.kind = "none")
        /\ callerPc = "returned" => StopResponse

C21_Witness ==
    /\ op = "get_commits_for_repo" /\ callerPc = "raised" /\ apiPc = "raised"
    /\ requested = <<1, 2>> /\ acc # << >>

\* C18: search_github_users makes one call of api_request; when the search
\* is answered 200 it returns the first max_results logins of the response's
\* items, in their order (all of them when there are fewer); when it is
\* answered anything else it returns the empty list.
C18_SearchFrontSlice ==
    (op = "search_github_users" /\ callerPc \in {"returned", "raised"} /\ apiPc = "returned") =>
        /\ callerPc = "returned"
        /\ Len(requested) = 1
        /\ Len(acc) <= max_results
        /\ \A i \in 1..Len(acc) : acc[i] = apiResult.data[i]
        /\ apiResult.status = 200 =>
              (Len(acc) = max_results \/ Len(acc) = Len(apiResult.data))
        /\ apiResult.status # 200 => acc = << >>

(***************************************************************************)
(* Properties of the fetch stage                                           *)
(***************************************************************************)
Sorted == fetchPc \in {"patches", "done", "raised"}

\* position of the commit with this sha in the list handed to the sort
PosIn(list, sha) == CHOOSE i \in 1..Len(list) : list[i].sha = sha

\* C7: after the sort the aggregated list is in descending order of author
\* timestamp, it holds the same commits, and commits with equal timestamps
\* are in the order they had before the sort.
C7_SortedDescStable ==
    Sorted =>
        /\ Len(all_commits) = Len(aggregated)
        /\ \A i \in 1..Len(aggregated) : \E j \in 1..Len(all_commits) : all_commits[j] = aggregated[i]
        /\ \A i, j \in 1..Len(all_commits) :
              i < j =>
                 /\ TimeOf(all_commits[i].date) >= TimeOf(all_commits[j].date)
                 /\ TimeOf(all_commits[i].date) = TimeOf(all_commits[j].date)
                      => PosIn(aggregated, all_commits[i].sha) < PosIn(aggregated, all_commits[j].sha)

C7_Witness ==
    /\ Sorted /\ Len(repoCommits) = 2 /\ Len(all_commits) = 4
    /\ all_commits # aggregated
    /\ \E i \in 1..3 : all_commits[i].date = all_commits[i + 1].date
                        /\ all_commits[i].repo # all_commits[i + 1].repo

InFirst(n, sha) == \E i \in 1..n : i <= Len(all_commits) /\ all_commits[i].sha = sha

PatchCap ==
    /\ Len(patchRequests) <= PatchLimit
    /\ \A i \in 1..Len(patchRequests) : InFirst(PatchLimit, patchRequests[i])

\* C8 as stated: in every mode patches are requested only for entries among
\* the first 50 of the sorted list, at most 50 per candidate.
C8_Original == PatchCap

\* C8 amended: the cap holds in batch mode (fetch_user_commits) and in the web
\* analyze handler; CLI single-user mode requests a patch for every commit.
C8_PatchCapBatchWeb ==
    /\ mode \in {"batch", "web"} => PatchCap
    /\ (mode = "cli" /\ fetchPc = "done") => Len(patchRequests) = Len(all_commits)

C8_Witness ==
    /\ mode = "batch" /\ fetchPc = "done"
    /\ Len(all_commits) = PatchLimit + 1
    /\ Len(patchRequests) = PatchLimit

(***************************************************************************)
(* Properties of prepare_commits_for_analysis                              *)
(***************************************************************************)
\* the patch text prepare_commits_for_analysis was given for commit i
GivenPatch(i) == DictGet(prepPatches, prepCommits[i].sha, << >>)

\* C9: a patch longer than 3000 characters comes out as its first 3000
\* characters followed by the truncation suffix; a patch of at most 3000
\* characters comes out unchanged.
C9_PatchTruncation ==
    prepPc = "returned" =>
        /\ Len(commit_summaries) = Len(prepCommits)
        /\ \A i \in 1..Len(prepCommits) :
              LET given == GivenPatch(i)
                  out == commit_summaries[i].patch
              IN IF Len(given) <= TruncateAt
                 THEN out = given
                 ELSE /\ Len(out) = TruncateAt + Len(TruncationSuffix)
                      /\ \A k \in 1..TruncateAt : out[k] = given[k]
                      /\ \A k \in 1..Len(TruncationSuffix) :
                            out[TruncateAt + k] = TruncationSuffix[k]

C9_Witness ==
    /\ prepPc = "returned" /\ Len(prepCommits) = 2
    /\ Len(GivenPatch(1)) = TruncateAt + 1
    /\ Len(commit_summaries[1].patch) = TruncateAt + Len(TruncationSuffix)
    /\ Len(GivenPatch(2)) = TruncateAt
    /\ commit_summaries[2].patch = GivenPatch(2)

(***************************************************************************)
(* Properties of the reply parsers                                         *)
(***************************************************************************)
\* C10: a JSON text wrapped in a fenced block, tagged json or untagged, is
\* decoded to the same value as the JSON text sent without a fence.
C10_FencedDecodesAsUnfenced ==
    replyIdx = 3 => (parsed[2] = parsed[1] /\ parsed[3] = parsed[1])

\* C11: for a reply that is not valid JSON, with or without fence markers in
\* it, a parser that falls back returns a fallback object holding the reply
\* text exactly as the LLM sent it.
C11_FallbackKeepsReply ==
    \A i \in 1..replyIdx :
        (~json_loads(replies[i]).ok /\ parsed[i].kind = "fallback")
            => parsed[i].raw = replies[i]

\* the zeroed score entries of a fallback object
ZeroScores == {"job_fit_score: 0", "overall_score: 0"}

\* C12 as stated: on decode failure both candidate evaluators return a
\* fallback object carrying the raw text and zeroed score fields.
C12_Original ==
    \A i \in 1..replyIdx :
        (/\ parser \in {"analyze_commits_with_claude", "analyze_candidate_for_job"}
         /\ parsed[i].kind = "fallback")
            => (parsed[i].rawKey = "raw_response" /\ ZeroScores \subseteq parsed[i].extra)

\* C12 amended: on decode failure analyze_candidate_for_job returns the text
\* under raw_response together with job_fit_score 0 and overall_score 0;
\* analyze_commits_with_claude returns the text under raw_response and no
\* other field. The text is the reply itself when it has no fence marker.
C12_FallbackFields ==
    \A i \in 1..replyIdx :
        parsed[i].kind = "fallback" =>
            /\ parser = "analyze_candidate_for_job"
                  => (parsed[i].rawKey = "raw_response" /\ parsed[i].extra = ZeroScores)
            /\ parser = "analyze_commits_with_claude"
                  => (parsed[i].rawKey = "raw_response" /\ parsed[i].extra = {})
            /\ ~Contains(replies[i], Fence) => parsed[i].raw = replies[i]

C12_Witness ==
    /\ parser = "analyze_candidate_for_job" /\ replyIdx = 1
    /\ replies[1] = <<"o", "o", "p", "s">>
    /\ parsed[1].kind = "fallback" /\ parsed[1].extra = ZeroScores
    /\ parsed[1].raw = replies[1]

(***************************************************************************)
(* Properties of evaluate_candidates                                       *)
(***************************************************************************)
Finished == batchPc \in {"returned", "raised"}

NCommits(p) == Len(Flatten(p.repos))

\* the candidate has commits, its fetch does not raise and the LLM answers
Succeeds(p) == NCommits(p) >= 1 /\ p.fault.kind # "raise" /\ p.llm = "reply"

HasEntry(c) == \E k \in 1..Len(results) : results[k].username = c

\* C13: whatever happens for one candidate (an exception during the fetch or
\* the evaluation, an LLM reply of any shape), evaluate_candidates returns
\* normally and its result holds an entry for every candidate that has a
\* commit and whose own fetch and evaluation succeeded.
C13_FailureNeverAbortsBatch ==
    Finished =>
        /\ batchPc = "returned"
        /\ \A c \in 1..Len(candidates) : Succeeds(candidates[c]) => HasEntry(c)

\* C14: the list evaluate_candidates returns is in non-increasing order of
\* job fit score, an analysis without the field counting as 0.
C14_SortedByJobFitDesc ==
    batchPc = "returned" =>
        \A i, j \in 1..Len(results) :
            i < j => ~KeyLess(job_fit_score(results[i].analysis),
                              job_fit_score(results[j].analysis))

C14_Witness ==
    /\ batchPc = "returned" /\ Len(results) = 3
    /\ results[1].username = 3 /\ job_fit_score(results[1].analysis).v = <<"1", "0">>
    /\ results[2].username = 1 /\ job_fit_score(results[2].analysis).v = <<"7">>
    /\ results[3].username = 2 /\ results[3].analysis.kind = "json"
    /\ \A m \in 1..Len(results[3].analysis.value.v) :
          results[3].analysis.value.v[m].key # ScoreKey

\* C15: the first request for a candidate other than the first is directly
\* preceded by the 1-second sleep made after the previous candidate, whether
\* that candidate was evaluated, skipped or failed.
C15_SleepBetweenCandidates ==
    \A k \in 2..Len(trace) :
        trace[k].kind = "fetch" => (trace[k - 1].kind = "sleep" /\ trace[k - 1].entries = 1)

\* the steps logged for candidate c, in order
RECURSIVE StepsOf(_, _)
StepsOf(log, c) ==
    IF log = << >> THEN << >>
    ELSE IF Head(log).cand = c THEN <<Head(log).kind>> \o StepsOf(Tail(log), c)
    ELSE StepsOf(Tail(log), c)

StepOrder == <<"fetch", "prepare", "llm", "append", "sleep">>

\* C16: the steps of a candidate are taken in the order fetch, build prompt,
\* evaluate, append; for a candidate whose fetch yields no commits the LLM is
\* never called and no entry is appended.
C16_StepOrderAndSkip ==
    \A c \in 1..Len(candidates) :
        LET steps == StepsOf(trace, c)
        IN /\ Len(steps) <= Len(StepOrder)
           /\ steps = SubSeq(StepOrder, 1, Len(steps))
           /\ NCommits(candidates[c]) = 0 =>
                 (Len(steps) <= 1 /\ ~HasEntry(c))

C16_Witness ==
    /\ batchPc = "returned" /\ Len(candidates) = 3
    /\ candidates[1].repos = << >>
    /\ candidates[2].repos = << << >> >>
    /\ StepsOf(trace, 1) = <<"fetch">> /\ StepsOf(trace, 2) = <<"fetch">>
    /\ StepsOf(trace, 3) = StepOrder
    /\ Len(results) = 1 /\ results[1].username = 3

\* C19: the number of commit entries put into the prompt of one candidate
\* is bounded by a constant, the cap of 50 that bounds the patch fetches.
C19_PromptEntriesBounded ==
    \A k \in 1..Len(trace) :
        trace[k].kind = "llm" => trace[k].entries <= PatchLimit

(***************************************************************************)
(* Properties of the entry points                                          *)
(***************************************************************************)
\* a run that needs the LLM: every entry point but main() with --no-rate
NeedsLLM == entry \in Entries /\ ~(entry = "cli_single" /\ args.no_rate)

\* C17: when the LLM credential is missing, an entry point that needs the
\* LLM sends no request to GitHub and none to the LLM, and it ends by
\* telling the user.
C17_NoRequestWithoutKey ==
    (NeedsLLM /\ ~has_api_key) =>
        /\ calls = << >>
        /\ entryPc # "crashed"
        /\ entryPc = "done" => reported \in {"key_missing", "error"}

\* C23: in single-user mode of main() with the analysis enabled and the LLM
\* credential missing, no file is ever written, with or without --output, and
\* a run whose fetch got through ends there with the missing-key message and
\* no LLM request; with --no-rate a run whose fetch got through writes the
\* commits file, and only that file, exactly when --output is given.
C23_NoFileWithoutKey ==
    entry = "cli_single" =>
        /\ (~args.no_rate /\ ~has_api_key) =>
              /\ files = { }
              /\ \A i \in 1..Len(calls) : calls[i].to = "github"
              /\ fetchPc = "done" => entryPc \in {"fetching", "done"}
              /\ (fetchPc = "done" /\ entryPc = "done") => reported = "key_missing"
        /\ (args.no_rate /\ fetchPc = "done" /\ entryPc = "done") =>
              files = IF args.output THEN {"output"} ELSE { }

C23_Witness ==
    /\ entry = "cli_single" /\ ~args.no_rate /\ ~has_api_key /\ args.output
    /\ fetchPc = "done" /\ entryPc = "done" /\ patchRequests # << >>
    /\ reported = "key_missing" /\ files = { } /\ calls # << >>

====
